---- MODULE Spec2Model ----
(***************************************************************************)
(* Model of wire_nio/client/async_client.py: the AsyncClient request       *)
(* pipeline (client_session decorator, send, api_send, receive_response,   *)
(* parse_wire_response).                                                   *)
(*                                                                         *)
(* Each api_send call is an asyncio task.  Between two awaits that really  *)
(* suspend (the HTTP exchange, asyncio.sleep) a task runs atomically, so   *)
(* every action below is the code from one suspension point to the next.   *)
(***************************************************************************)
EXTENDS Integers, Sequences, FiniteSets, TLC

\* ---- bounds of the model ------------------------------------------------
MaxCeiling == 2   \* finite ceilings range over 0..MaxCeiling
MaxSends == 3     \* requests issued by all calls together
MaxReceives == 2  \* direct calls of receive_response

\* ---- program constants ----------------------------------------------------
RATE_LIMIT_STATUS == 429
DEFAULT_RETRY_AFTER_MS == 5000
MS_PER_SECOND == 1000

\* ---- values ---------------------------------------------------------------
\* Optional[T]: None is the empty tuple, a present value v is <<v>>.
None == << >>
Some(v) == <<v>>

Calls == {1, 2}
\* the access tokens the client holds one after the other
Tokens == <<"t1", "t2">>
Statuses == {200, RATE_LIMIT_STATUS}
\* An attribute of an object: absent, or present with a value.
Absent == [has |-> FALSE, val |-> None]
Attr(v) == [has |-> TRUE, val |-> v]
RetryAfterValues == {Attr(None), Attr(Some(0)), Attr(Some(1500))}
ConnErrors == {"ClientConnectionError", "TimeoutError"}

\* The response classes the callers pass (login, users): a class object is
\* [isclass |-> TRUE, cls |-> name]; an instance has isclass = FALSE.
ResponseClasses == {[isclass |-> TRUE, cls |-> "LoginResponse"],
                    [isclass |-> TRUE, cls |-> "UsersResponse"]}
LoginResponse == "LoginResponse"

\* What response_class().parse_data(content) yields: an instance of the
\* response class (no retry_after_ms attribute) or an ErrorResponse, whose
\* retry_after_ms is None, 0 or a number of milliseconds.
Variant(cls, ra) == [isclass |-> FALSE, cls |-> cls, retry_after_ms |-> ra]
Variants(cls) ==
    {Variant(cls, Absent)} \cup
    {Variant("ErrorResponse", ra) : ra \in RetryAfterValues}

\* The classes derived from response.BaseResponse.
BaseResponseClasses == {"LoginResponse", "UsersResponse", "ErrorResponse"}

\* What a caller may hand to receive_response: response variants, and values
\* that are none (a response class itself, a dict, None).
ResponseValues == Variants("LoginResponse") \cup Variants("UsersResponse")
NonResponseValues ==
    {[isclass |-> TRUE, cls |-> "UsersResponse", retry_after_ms |-> Absent],
     [isclass |-> FALSE, cls |-> "dict", retry_after_ms |-> Absent],
     [isclass |-> FALSE, cls |-> "NoneType", retry_after_ms |-> Absent]}

ContentTypes == {None}
ContentLengths == {None}

Ceilings == {None} \cup {Some(n) : n \in 0..MaxCeiling}

VARIABLES
    max_limit_exceeded, \* self.config.max_limit_exceeded
    max_timeouts,       \* self.config.max_timeouts
    access_token,       \* self.access_token
    client_session,     \* self.client_session: None or Some(session id)
    sessions_created,   \* number of ClientSession objects constructed
    pc,                 \* per call: where the task is
    response_class,     \* per call: api_send's response_class argument
    headers,            \* per call: the headers dict of api_send
    got_429,            \* per call
    got_timeouts,       \* per call
    resp,               \* per call: api_send's local resp (None: unbound)
    request,            \* per call: the request last handed to the session
    outcome,            \* per call: outcomes of the attempts so far
    decoded,            \* per call: variant decoded from the last attempt
    sleeps,             \* per call: number of sleep() calls
    last_sleep,         \* per call: argument of the last sleep() call
    received,           \* per call: variants forwarded to Client.receive_response
    raised,             \* per call: the exception that ended the call
    token_at_send,      \* per call: access_token when the last request was issued
    thrown,             \* per call: the exception being handled (lines 205-212)
    wait_args,          \* per call: arguments of get_timeout_retry_wait_time
    cancelled,          \* the calls whose task was cancelled
    rr_args,            \* the arguments of the direct receive_response calls
    rr_forwarded,       \* what those calls forwarded to Client.receive_response
    rr_raised           \* the exception the last of those calls raised

vars == <<max_limit_exceeded, max_timeouts, access_token, client_session,
          sessions_created, pc, response_class, headers, got_429,
          got_timeouts, resp, request, outcome, decoded, sleeps, last_sleep,
          received, raised, token_at_send, thrown, wait_args, cancelled,
          rr_args, rr_forwarded, rr_raised>>

direct == <<rr_args, rr_forwarded, rr_raised>>

config == <<max_limit_exceeded, max_timeouts>>

\* ---- pure helpers -----------------------------------------------------------

\* isinstance(obj, cls)
IsInstance(obj, cls) == ~obj.isclass /\ obj.cls = cls

\* the isinstance test of line 169 without its "not"
BuildHeaders_AuthInverted(rclass, content_type, content_length, token) ==
    LET base == [h \in {"Content-Type", "Accept", "User-Agent"} |->
                    CASE h = "Content-Type" ->
                             IF content_type # None THEN content_type[1]
                             ELSE "application/json"
                      [] h = "Accept" -> "*/*"
                      [] h = "User-Agent" -> "wire-nio/<version>"]
        auth == IF IsInstance(rclass, LoginResponse)
                THEN [h \in {"Authorization"} |-> <<"Bearer", token>>]
                ELSE << >>
        len == IF content_length # None
               THEN [h \in {"Content-Length"} |-> content_length[1]]
               ELSE << >>
    IN  base @@ auth @@ len

\* api_send, lines 163-173
BuildHeaders(rclass, content_type, content_length, token) ==
    LET base == [h \in {"Content-Type", "Accept", "User-Agent"} |->
                    CASE h = "Content-Type" ->
                             IF content_type # None THEN content_type[1]
                             ELSE "application/json"
                      [] h = "Accept" -> "*/*"
                      [] h = "User-Agent" -> "wire-nio/<version>"]
        auth == IF ~IsInstance(rclass, LoginResponse)
                THEN [h \in {"Authorization"} |-> <<"Bearer", token>>]
                ELSE << >>
        len == IF content_length # None
               THEN [h \in {"Content-Length"} |-> content_length[1]]
               ELSE << >>
    IN  base @@ auth @@ len

HasHeader(hs, name) == name \in DOMAIN hs

\* the decorator without the test of line 61
EnsureSession_Always(session, created) == Some(created + 1)

\* the client_session decorator, lines 61-71: the session after the check
EnsureSession(session, created) ==
    IF session = None THEN Some(created + 1) ELSE session

\* line 193 testing for "not an ErrorResponse"
IsRateLimited_Inverted(status, variant) ==
    status = RATE_LIMIT_STATUS \/ ~IsInstance(variant, "ErrorResponse")

\* lines 191-194 without the isinstance test of line 193
IsRateLimited_StatusOnly(status, variant) == status = RATE_LIMIT_STATUS

\* lines 191-194
IsRateLimited(status, variant) ==
    status = RATE_LIMIT_STATUS \/ IsInstance(variant, "ErrorResponse")

\* the comparison of lines 197 and 208 off by one, either way
Exceeded_AtCeiling(got, max) == max # None /\ got >= max[1]
Exceeded_Late(got, max) == max # None /\ got > max[1] + 1

\* an absent ceiling read as 0 ("got > (max or 0)")
Exceeded_NoneIsZero(got, max) == got > (IF max = None THEN 0 ELSE max[1])

\* lines 197 and 208: "max is not None and got > max"
Exceeded(got, max) == max # None /\ got > max[1]

\* getattr(obj, name, default) on the attribute's state
GetAttr(attr, default) == IF attr.has THEN attr.val ELSE Some(default)

\* line 200 as getattr(resp, "retry_after_ms", 5000), without the "or"
RetryAfterMs_DefaultOnlyIfAbsent(variant) ==
    LET got == GetAttr(variant.retry_after_ms, DEFAULT_RETRY_AFTER_MS)
    IN  IF got = None THEN 0 ELSE got[1]

\* the counter kept on the client, one for all calls
Bump_Shared(counter, c) == [d \in Calls |-> counter[d] + 1]

\* the increment left out
Bump_Forgotten(counter, c) == counter

\* lines 195 and 206: "got_429 += 1", "got_timeouts += 1" on the call's local
Bump(counter, c) == [counter EXCEPT ![c] = @ + 1]

\* line 200: getattr(resp, "retry_after_ms", 0) or 5000
RetryAfterMs(variant) ==
    LET got == GetAttr(variant.retry_after_ms, 0)
    IN  IF got = None \/ got = Some(0) THEN DEFAULT_RETRY_AFTER_MS
        ELSE got[1]

\* line 201: retry_after_ms / 1000, a number of seconds kept as a fraction
MsToSeconds(ms) == [num |-> ms, den |-> MS_PER_SECOND]

\* line 211: Client.get_timeout_retry_wait_time(got_timeouts)
GetTimeoutRetryWaitTime(n) == [timeout_retry_wait |-> n]

\* line 230 accepting any object that is not a class
IsBaseResponse_AnyInstance(v) == ~v.isclass

\* line 230: isinstance(resp, response.BaseResponse)
IsBaseResponse(v) == ~v.isclass /\ v.cls \in BaseResponseClasses

\* lines 230-236: receive_response
ReceiveResponse_Dropped(log, v) == log
ReceiveResponse(log, v) == IF IsBaseResponse(v) THEN Append(log, v) ELSE log

\* ---- ghost bookkeeping ------------------------------------------------------

\* requests issued so far by one call, and by all calls
Sends(c) == Len(outcome[c]) + (IF pc[c] = "send" THEN 1 ELSE 0)

TotalSends ==
    LET RECURSIVE Sum(_)
        Sum(S) == IF S = {} THEN 0
                  ELSE LET c == CHOOSE x \in S : TRUE
                       IN  Sends(c) + Sum(S \ {c})
    IN  Sum(Calls)

\* what the server answered, seen from outside the client
Answer(status, variant) ==
    IF status = RATE_LIMIT_STATUS \/ variant.cls = "ErrorResponse"
    THEN "rate_limited" ELSE "ok"

\* ---- initial state: AsyncClient.__init__, lines 83-114 ----------------------
Init ==
    /\ max_limit_exceeded \in Ceilings
    /\ max_timeouts \in Ceilings
    /\ access_token = Tokens[1]
    /\ client_session = None
    /\ sessions_created = 0
    /\ pc = [c \in Calls |-> "idle"]
    /\ response_class = [c \in Calls |-> None]
    /\ headers = [c \in Calls |-> << >>]
    /\ got_429 = [c \in Calls |-> 0]
    /\ got_timeouts = [c \in Calls |-> 0]
    /\ resp = [c \in Calls |-> None]
    /\ request = [c \in Calls |-> None]
    /\ outcome = [c \in Calls |-> << >>]
    /\ decoded = [c \in Calls |-> None]
    /\ sleeps = [c \in Calls |-> 0]
    /\ last_sleep = [c \in Calls |-> None]
    /\ received = [c \in Calls |-> << >>]
    /\ raised = [c \in Calls |-> None]
    /\ token_at_send = [c \in Calls |-> None]
    /\ thrown = [c \in Calls |-> None]
    /\ wait_args = [c \in Calls |-> << >>]
    /\ cancelled = {}
    /\ rr_args = << >>
    /\ rr_forwarded = << >>
    /\ rr_raised = None

\* ---- send, lines 116-150, with the client_session wrapper, lines 60-73 ------
\* Runs without suspension up to the await of client_session.request.
Send(c, hs) ==
    /\ client_session' = EnsureSession(client_session, sessions_created)
    /\ sessions_created' = IF client_session' # client_session
                           THEN sessions_created + 1 ELSE sessions_created
    /\ request' = [request EXCEPT
                      ![c] = Some([headers |-> hs, session |-> client_session'])]
    /\ token_at_send' = [token_at_send EXCEPT ![c] = Some(access_token)]
    /\ pc' = [pc EXCEPT ![c] = "send"]

\* ---- lines 201 and 212: await sleep(seconds) ---------------------------------
Sleep(c, seconds) ==
    /\ sleeps' = [sleeps EXCEPT ![c] = @ + 1]
    /\ last_sleep' = [last_sleep EXCEPT ![c] = Some(seconds)]

\* ---- lines 211-212: wait = await get_timeout_retry_wait_time(n); sleep(wait) -
TimeoutRetryWait(c, n) ==
    /\ wait_args' = [wait_args EXCEPT ![c] = Append(@, n)]
    /\ Sleep(c, GetTimeoutRetryWaitTime(n))

\* ---- api_send, lines 163-185: from the call to the first await ---------------
ApiSend(c) ==
    /\ pc[c] = "idle"
    /\ TotalSends < MaxSends
    /\ \E rclass \in ResponseClasses, content_type \in ContentTypes,
          content_length \in ContentLengths :
          /\ response_class' = [response_class EXCEPT ![c] = Some(rclass)]
          /\ headers' = [headers EXCEPT
                ![c] = BuildHeaders(rclass, content_type, content_length,
                                    access_token)]
    /\ got_429' = [got_429 EXCEPT ![c] = 0]
    /\ got_timeouts' = [got_timeouts EXCEPT ![c] = 0]
    /\ Send(c, headers'[c])
    /\ UNCHANGED <<config, direct, cancelled, wait_args, access_token, resp, outcome, decoded, sleeps,
                   last_sleep, received, raised, thrown>>

\* ---- api_send, lines 214-215: receive_response(resp); return resp ------------
Finish(c, variant) ==
    /\ received' = [received EXCEPT ![c] = ReceiveResponse(@, variant)]
    /\ IF IsBaseResponse(variant)
       THEN pc' = [pc EXCEPT ![c] = "returned"] /\ UNCHANGED raised
       ELSE /\ pc' = [pc EXCEPT ![c] = "raised"]
            /\ raised' = [raised EXCEPT ![c] = Some("ValueError")]

\* ---- api_send, lines 187-203 and 214-215: a transport response arrives ------
OnResponse(c) ==
    /\ pc[c] = "send"
    /\ \E status \in Statuses, variant \in Variants(response_class[c][1].cls) :
          /\ resp' = [resp EXCEPT ![c] = Some(variant)]
          /\ decoded' = [decoded EXCEPT ![c] = Some(variant)]
          /\ outcome' = [outcome EXCEPT ![c] = Append(@, Answer(status, variant))]
          /\ IF IsRateLimited(status, resp'[c][1])
             THEN /\ got_429' = Bump(got_429, c)
                  /\ IF Exceeded(got_429'[c], max_limit_exceeded)
                     THEN Finish(c, resp'[c][1]) /\ UNCHANGED <<sleeps, last_sleep>>
                     ELSE /\ Sleep(c, MsToSeconds(RetryAfterMs(resp'[c][1])))
                          /\ pc' = [pc EXCEPT ![c] = "sleep"]
                          /\ UNCHANGED <<received, raised>>
             ELSE /\ Finish(c, resp'[c][1])
                  /\ UNCHANGED <<got_429, sleeps, last_sleep>>
    /\ UNCHANGED <<config, direct, cancelled, wait_args, access_token, client_session, sessions_created,
                   response_class, headers, got_timeouts, request,
                   token_at_send, thrown>>

\* the failure counted on got_429 and held against max_limit_exceeded
OnConnectionError_CountsAs429(c) ==
    /\ pc[c] = "send"
    /\ \E e \in ConnErrors :
          /\ outcome' = [outcome EXCEPT ![c] = Append(@, "error")]
          /\ thrown' = [thrown EXCEPT ![c] = Some(e)]
          /\ got_429' = Bump(got_429, c)
          /\ IF Exceeded(got_429'[c], max_limit_exceeded)
             THEN /\ pc' = [pc EXCEPT ![c] = "raised"]
                  /\ raised' = [raised EXCEPT ![c] = Some(e)]
                  /\ UNCHANGED <<sleeps, last_sleep, wait_args>>
             ELSE /\ TimeoutRetryWait(c, got_429'[c])
                  /\ pc' = [pc EXCEPT ![c] = "sleep"]
                  /\ UNCHANGED raised
    /\ UNCHANGED <<config, direct, cancelled, access_token, client_session,
                   sessions_created, response_class, headers, got_timeouts,
                   resp, request, decoded, received, token_at_send>>

\* the wait computed before the ceiling is tested
OnConnectionError_WaitBeforeTest(c) ==
    /\ pc[c] = "send"
    /\ \E e \in ConnErrors :
          /\ outcome' = [outcome EXCEPT ![c] = Append(@, "error")]
          /\ thrown' = [thrown EXCEPT ![c] = Some(e)]
          /\ got_timeouts' = Bump(got_timeouts, c)
          /\ wait_args' = [wait_args EXCEPT ![c] = Append(@, got_timeouts'[c])]
          /\ IF Exceeded(got_timeouts'[c], max_timeouts)
             THEN /\ pc' = [pc EXCEPT ![c] = "raised"]
                  /\ raised' = [raised EXCEPT ![c] = Some(e)]
                  /\ UNCHANGED <<sleeps, last_sleep>>
             ELSE /\ Sleep(c, GetTimeoutRetryWaitTime(got_timeouts'[c]))
                  /\ pc' = [pc EXCEPT ![c] = "sleep"]
                  /\ UNCHANGED raised
    /\ UNCHANGED <<config, direct, cancelled, access_token, client_session, sessions_created,
                   response_class, headers, got_429, resp, request, decoded,
                   received, token_at_send>>

\* ---- api_send, lines 205-212: send raised a connection or timeout error ------
OnConnectionError(c) ==
    /\ pc[c] = "send"
    /\ \E e \in ConnErrors :
          /\ outcome' = [outcome EXCEPT ![c] = Append(@, "error")]
          /\ thrown' = [thrown EXCEPT ![c] = Some(e)]
          /\ got_timeouts' = Bump(got_timeouts, c)
          /\ IF Exceeded(got_timeouts'[c], max_timeouts)
             THEN /\ pc' = [pc EXCEPT ![c] = "raised"]
                  /\ raised' = [raised EXCEPT ![c] = Some(e)]
                  /\ UNCHANGED <<sleeps, last_sleep, wait_args>>
             ELSE /\ TimeoutRetryWait(c, got_timeouts'[c])
                  /\ pc' = [pc EXCEPT ![c] = "sleep"]
                  /\ UNCHANGED raised
    /\ UNCHANGED <<config, direct, cancelled, access_token, client_session, sessions_created,
                   response_class, headers, got_429, resp, request, decoded,
                   received, token_at_send>>

\* the decode error handled like a connection error (a wider except clause)
OnDecodeError_Caught(c) ==
    /\ pc[c] = "send"
    /\ outcome' = [outcome EXCEPT ![c] = Append(@, "decode_error")]
    /\ thrown' = [thrown EXCEPT ![c] = Some("DecodeError")]
    /\ got_timeouts' = Bump(got_timeouts, c)
    /\ IF Exceeded(got_timeouts'[c], max_timeouts)
       THEN /\ pc' = [pc EXCEPT ![c] = "raised"]
            /\ raised' = [raised EXCEPT ![c] = Some("DecodeError")]
            /\ UNCHANGED <<sleeps, last_sleep, wait_args>>
       ELSE /\ TimeoutRetryWait(c, got_timeouts'[c])
            /\ pc' = [pc EXCEPT ![c] = "sleep"]
            /\ UNCHANGED raised
    /\ UNCHANGED <<config, direct, cancelled, access_token, client_session, sessions_created,
                   response_class, headers, got_429, resp, request, decoded,
                   received, token_at_send>>

\* ---- parse_wire_response, line 262: the body is not JSON ---------------------
\* transport_response.json() raises; the except clause of line 205 does not
\* name the error, so it leaves api_send.
OnDecodeError(c) ==
    /\ pc[c] = "send"
    /\ outcome' = [outcome EXCEPT ![c] = Append(@, "decode_error")]
    /\ pc' = [pc EXCEPT ![c] = "raised"]
    /\ raised' = [raised EXCEPT ![c] = Some("DecodeError")]
    /\ UNCHANGED <<config, direct, cancelled, wait_args, access_token, client_session, sessions_created,
                   response_class, headers, got_429, got_timeouts, resp,
                   request, decoded, sleeps, last_sleep, received,
                   token_at_send, thrown>>

\* ---- api_send, lines 201/212 then 181-185: sleep() returns, next attempt -----
Wake(c) ==
    /\ pc[c] = "sleep"
    /\ TotalSends < MaxSends
    /\ Send(c, headers[c])
    /\ thrown' = [thrown EXCEPT ![c] = None]
    /\ UNCHANGED <<config, direct, cancelled, wait_args, access_token, response_class, headers, got_429,
                   got_timeouts, resp, outcome, decoded, sleeps, last_sleep,
                   received, raised>>

\* ---- another task of the client replaces the access token -------------------
SetToken(i) ==
    /\ access_token = Tokens[i]
    /\ access_token' = Tokens[i + 1]
    /\ UNCHANGED <<config, direct, cancelled, wait_args, client_session, sessions_created, pc,
                   response_class, headers, got_429, got_timeouts, resp,
                   request, outcome, decoded, sleeps, last_sleep, received,
                   raised, token_at_send, thrown>>

\* ---- receive_response, lines 217-236, called by a user of the client --------
ReceiveResponseCall(v) ==
    /\ Len(rr_args) < MaxReceives
    /\ rr_args' = Append(rr_args, v)
    /\ rr_forwarded' = ReceiveResponse(rr_forwarded, v)
    /\ rr_raised' = IF IsBaseResponse(v) THEN None ELSE Some("ValueError")
    /\ UNCHANGED <<config, access_token, client_session, sessions_created, pc,
                   response_class, headers, got_429, got_timeouts, resp,
                   request, outcome, decoded, sleeps, last_sleep, received,
                   raised, token_at_send, thrown, wait_args, cancelled>>

\* the CancelledError handled by the except clause of line 205
Cancel_Absorbed(c) ==
    /\ pc[c] \in {"send", "sleep"}
    /\ cancelled' = cancelled \cup {c}
    /\ outcome' = [outcome EXCEPT
                      ![c] = IF pc[c] = "send" THEN Append(@, "cancelled") ELSE @]
    /\ thrown' = [thrown EXCEPT ![c] = Some("CancelledError")]
    /\ got_timeouts' = Bump(got_timeouts, c)
    /\ IF Exceeded(got_timeouts'[c], max_timeouts)
       THEN /\ pc' = [pc EXCEPT ![c] = "raised"]
            /\ raised' = [raised EXCEPT ![c] = Some("CancelledError")]
            /\ UNCHANGED <<sleeps, last_sleep, wait_args>>
       ELSE /\ TimeoutRetryWait(c, got_timeouts'[c])
            /\ pc' = [pc EXCEPT ![c] = "sleep"]
            /\ UNCHANGED raised
    /\ UNCHANGED <<config, direct, access_token, client_session,
                   sessions_created, response_class, headers, got_429, resp,
                   request, decoded, received, token_at_send>>

\* ---- the task running api_send is cancelled at an await (lines 183-212) -----
\* asyncio raises CancelledError at the await of send, of json() or of sleep;
\* the except clause of line 205 does not name it, so it leaves api_send.
Cancel(c) ==
    /\ pc[c] \in {"send", "sleep"}
    /\ cancelled' = cancelled \cup {c}
    /\ outcome' = [outcome EXCEPT
                      ![c] = IF pc[c] = "send" THEN Append(@, "cancelled") ELSE @]
    /\ pc' = [pc EXCEPT ![c] = "cancelled"]
    /\ raised' = [raised EXCEPT ![c] = Some("CancelledError")]
    /\ thrown' = [thrown EXCEPT ![c] = None]
    /\ UNCHANGED <<config, direct, wait_args, access_token, client_session,
                   sessions_created, response_class, headers, got_429,
                   got_timeouts, resp, request, decoded, sleeps, last_sleep,
                   received, token_at_send>>

Next ==
    \/ \E c \in Calls : ApiSend(c)
    \/ \E c \in Calls : OnResponse(c)
    \/ \E c \in Calls : OnConnectionError(c)
    \/ \E c \in Calls : OnDecodeError(c)
    \/ \E c \in Calls : Wake(c)
    \/ \E i \in 1..(Len(Tokens) - 1) : SetToken(i)

Spec == Init /\ [][Next]_vars

\* api_send calls whose tasks may be cancelled (the access token, which plays
\* no part in it, stays as it is)
NextCancel ==
    \/ \E c \in Calls : ApiSend(c)
    \/ \E c \in Calls : OnResponse(c)
    \/ \E c \in Calls : OnConnectionError(c)
    \/ \E c \in Calls : OnDecodeError(c)
    \/ \E c \in Calls : Wake(c)
    \/ \E c \in Calls : Cancel(c)

SpecCancel == Init /\ [][NextCancel]_vars

\* One api_send call on a client whose ceilings are both finite and leave the
\* call room within the send budget; every request is eventually answered or
\* fails, and every sleep eventually returns.
InitLive ==
    /\ max_limit_exceeded \in Ceilings \ {None}
    /\ max_timeouts \in Ceilings \ {None}
    /\ max_limit_exceeded[1] + max_timeouts[1] + 1 <= MaxSends
    /\ access_token = Tokens[1]
    /\ client_session = None
    /\ sessions_created = 0
    /\ pc = [c \in Calls |-> IF c = 1 THEN "idle" ELSE "unused"]
    /\ response_class = [c \in Calls |-> None]
    /\ headers = [c \in Calls |-> << >>]
    /\ got_429 = [c \in Calls |-> 0]
    /\ got_timeouts = [c \in Calls |-> 0]
    /\ resp = [c \in Calls |-> None]
    /\ request = [c \in Calls |-> None]
    /\ outcome = [c \in Calls |-> << >>]
    /\ decoded = [c \in Calls |-> None]
    /\ sleeps = [c \in Calls |-> 0]
    /\ last_sleep = [c \in Calls |-> None]
    /\ received = [c \in Calls |-> << >>]
    /\ raised = [c \in Calls |-> None]
    /\ token_at_send = [c \in Calls |-> None]
    /\ thrown = [c \in Calls |-> None]
    /\ wait_args = [c \in Calls |-> << >>]
    /\ cancelled = {}
    /\ rr_args = << >>
    /\ rr_forwarded = << >>
    /\ rr_raised = None

\* the awaited send or json() completes, one way or another
Completes(c) == OnResponse(c) \/ OnConnectionError(c) \/ OnDecodeError(c)

SpecLive ==
    /\ InitLive
    /\ [][Next]_vars
    /\ \A c \in Calls : WF_vars(Completes(c)) /\ WF_vars(Wake(c))

\* receive_response on its own
NextReceive == \E v \in ResponseValues \cup NonResponseValues : ReceiveResponseCall(v)

SpecReceive == Init /\ [][NextReceive]_vars

\* ---- vocabulary of the properties -------------------------------------------
AllAre(h, kind) == \A i \in 1..Len(h) : h[i] = kind
Count(h, kind) == Cardinality({i \in 1..Len(h) : h[i] = kind})
Front(h) == SubSeq(h, 1, Len(h) - 1)
\* "K <= ceiling", an absent ceiling being unlimited
Within(k, max) == max = None \/ k <= max[1]
IsLogin(c) == response_class[c] # None /\ response_class[c][1].cls = LoginResponse
Authorization(c) == request[c][1].headers["Authorization"]
Returned(c) == pc[c] = "returned"
Retrying(c) == pc[c] \in {"sleep", "send"}

\* ---- C1 -----------------------------------------------------------------------
\* C1: when the first attempt of a call is answered with a status other than
\* 429 and a variant that is not an ErrorResponse, the call has returned that
\* variant after one send and has never slept.
C1_FirstAttemptSuccess ==
    \A c \in Calls :
        (Len(outcome[c]) >= 1 /\ outcome[c][1] = "ok") =>
            /\ Returned(c)
            /\ outcome[c] = <<"ok">>
            /\ Sends(c) = 1
            /\ sleeps[c] = 0
            /\ resp[c] = decoded[c]
            /\ raised[c] = None

C1_Witness ==
    \E c \in Calls : outcome[c] = <<"ok">> /\ Returned(c) /\ resp[c] # None

\* ---- C2 -----------------------------------------------------------------------
\* C2: as long as the K attempts answered so far were all rate limited and K is
\* within max_limit_exceeded, the call goes on retrying, having slept once per
\* answer; and when attempt K+1 is then answered with a success, the call has
\* returned the variant decoded from attempt K+1 after K+1 sends and K sleeps.
C2_RateLimitedThenSuccess ==
    \A c \in Calls :
        LET h == outcome[c]
            n == Len(h)
        IN  /\ (n >= 1 /\ AllAre(h, "rate_limited")
                   /\ Within(n, max_limit_exceeded)) =>
                    /\ Retrying(c)
                    /\ sleeps[c] = n
            /\ (n >= 1 /\ h[n] = "ok" /\ AllAre(Front(h), "rate_limited")
                   /\ Within(n - 1, max_limit_exceeded)) =>
                    /\ Returned(c)
                    /\ Sends(c) = n
                    /\ sleeps[c] = n - 1
                    /\ resp[c] = decoded[c]
                    /\ resp[c][1].cls # "ErrorResponse"
                    /\ raised[c] = None

C2_Witness ==
    \E c \in Calls :
        /\ max_limit_exceeded = Some(2)
        /\ outcome[c] = <<"rate_limited", "rate_limited", "ok">>
        /\ Returned(c)
        /\ sleeps[c] = 2

\* ---- C3 -----------------------------------------------------------------------
\* C3: with a finite ceiling R a call never sees more than R+1 rate-limited
\* answers; at the (R+1)-th it returns the variant of that attempt without
\* raising and without sleeping again; when no attempt failed in between this
\* is after R+1 sends and R sleeps (one send and no sleep for R = 0).
C3_RateLimitExhausted ==
    \A c \in Calls :
        LET h == outcome[c]
            n == Len(h)
            k == Count(h, "rate_limited")
        IN  max_limit_exceeded # None =>
                LET R == max_limit_exceeded[1]
                IN  /\ k <= R + 1
                    /\ k = R + 1 =>
                          /\ Returned(c)
                          /\ raised[c] = None
                          /\ h[n] = "rate_limited"
                          /\ resp[c] = decoded[c]
                          /\ Sends(c) = n
                          /\ sleeps[c] = n - 1
                          /\ AllAre(h, "rate_limited") =>
                                Sends(c) = R + 1 /\ sleeps[c] = R

C3_Witness ==
    \E c \in Calls :
        /\ max_limit_exceeded = Some(2)
        /\ outcome[c] = <<"rate_limited", "rate_limited", "rate_limited">>
        /\ Returned(c)
        /\ sleeps[c] = 2

\* ---- C4 -----------------------------------------------------------------------
\* C4: as long as the K attempts made so far all failed with a connection or
\* timeout error and K is within max_timeouts, the errors are absorbed and the
\* call goes on retrying; when attempt K+1 then succeeds, the call has returned
\* the variant of attempt K+1 after exactly K retries.
C4_TimeoutsThenSuccess ==
    \A c \in Calls :
        LET h == outcome[c]
            n == Len(h)
        IN  /\ (n >= 1 /\ AllAre(h, "error") /\ Within(n, max_timeouts)) =>
                    /\ Retrying(c)
                    /\ raised[c] = None
                    /\ sleeps[c] = n
            /\ (n >= 1 /\ h[n] = "ok" /\ AllAre(Front(h), "error")
                   /\ Within(n - 1, max_timeouts)) =>
                    /\ Returned(c)
                    /\ raised[c] = None
                    /\ Sends(c) = n
                    /\ sleeps[c] = n - 1
                    /\ resp[c] = decoded[c]
                    /\ resp[c][1].cls # "ErrorResponse"

C4_Witness ==
    \E c \in Calls :
        /\ max_timeouts = Some(2)
        /\ outcome[c] = <<"error", "error", "ok">>
        /\ Returned(c)

\* ---- C5 -----------------------------------------------------------------------
\* C5: with a finite ceiling T a call never sees more than T+1 failed attempts;
\* at the (T+1)-th it raises the error of that attempt, without sleeping again
\* and without handing any variant on; when no attempt was rate limited in
\* between this is after T+1 sends and T sleeps (the first error for T = 0).
C5_TimeoutExhausted ==
    \A c \in Calls :
        LET h == outcome[c]
            n == Len(h)
            k == Count(h, "error")
        IN  max_timeouts # None =>
                LET T == max_timeouts[1]
                IN  /\ k <= T + 1
                    /\ k = T + 1 =>
                          /\ pc[c] = "raised"
                          /\ h[n] = "error"
                          /\ raised[c] # None
                          /\ raised[c] = thrown[c]
                          /\ raised[c][1] \in ConnErrors
                          /\ received[c] = << >>
                          /\ Sends(c) = n
                          /\ sleeps[c] = n - 1
                          /\ AllAre(h, "error") =>
                                Sends(c) = T + 1 /\ sleeps[c] = T

C5_Witness ==
    \E c \in Calls :
        /\ max_timeouts = Some(2)
        /\ outcome[c] = <<"error", "error", "error">>
        /\ pc[c] = "raised"
        /\ raised[c] = Some("TimeoutError")

\* ---- C6 -----------------------------------------------------------------------
\* C6: no request of a call made with the LoginResponse class, as login()
\* makes it, carries an Authorization header.
C6_LoginWithoutAuthorization ==
    \A c \in Calls :
        (IsLogin(c) /\ request[c] # None) =>
            ~HasHeader(request[c][1].headers, "Authorization")

\* ---- C7 -----------------------------------------------------------------------
\* C7: every request of a call that is not a login call carries the bearer
\* token that was the client's access token when that request was issued.
C7_TokenCurrentAtEachAttempt ==
    \A c \in Calls :
        (request[c] # None /\ ~IsLogin(c)) =>
            /\ HasHeader(request[c][1].headers, "Authorization")
            /\ Authorization(c) = <<"Bearer", token_at_send[c][1]>>

\* C7, amended: the first request of a call that is not a login call carries
\* the bearer token current when api_send was invoked, and every retry carries
\* the very Authorization header of the request before it, whatever the access
\* token has become in between.
C7_TokenOfTheCall ==
    [][\A c \in Calls :
          (pc'[c] = "send" /\ pc[c] # "send" /\ ~IsLogin(c)') =>
              /\ HasHeader(request'[c][1].headers, "Authorization")
              /\ pc[c] = "idle" =>
                    request'[c][1].headers["Authorization"]
                        = <<"Bearer", access_token>>
              /\ pc[c] = "sleep" =>
                    request'[c][1].headers = request[c][1].headers]_vars

C7_Witness ==
    \E c \in Calls :
        /\ ~IsLogin(c)
        /\ pc[c] = "send"
        /\ Len(outcome[c]) >= 1
        /\ Authorization(c) # <<"Bearer", token_at_send[c][1]>>

\* ---- C8 -----------------------------------------------------------------------
\* C8: at most one ClientSession is ever constructed, client_session once set
\* is never replaced, and every request of every call went to that session.
C8_OneSession ==
    /\ [](/\ sessions_created <= 1
          /\ \A c \in Calls :
                request[c] # None =>
                    /\ sessions_created = 1
                    /\ client_session # None
                    /\ request[c][1].session = client_session)
    /\ [][client_session # None => client_session' = client_session]_vars

C8_Witness ==
    /\ sessions_created = 1
    /\ \A c \in Calls : pc[c] = "send" /\ outcome[c] = << >>
    /\ \A c \in Calls : request[c][1].session = client_session

\* ---- C9 -----------------------------------------------------------------------
\* C9: a call that has returned has handed exactly one variant to
\* receive_response, the returned one, which is the variant decoded from its
\* last attempt; a call that has not returned (still retrying, or ended by
\* raising) has handed it nothing; and receive_response is called in the very
\* step that ends the call.
C9_ReceivedExactlyOnce ==
    /\ [](\A c \in Calls :
            /\ Returned(c) =>
                  /\ received[c] = <<resp[c][1]>>
                  /\ resp[c] = decoded[c]
                  /\ Sends(c) = Len(outcome[c])
            /\ ~Returned(c) => received[c] = << >>)
    /\ [][\A c \in Calls :
            received'[c] # received[c] =>
                /\ pc[c] = "send"
                /\ Returned(c)'
                /\ Len(outcome'[c]) = Len(outcome[c]) + 1]_vars

C9_Witness ==
    \E c \in Calls :
        /\ Returned(c)
        /\ Len(outcome[c]) = 3
        /\ Len(received[c]) = 1
        /\ received[c][1].cls = "ErrorResponse"

\* ---- C10 ----------------------------------------------------------------------
\* C10: an attempt whose body cannot be decoded ends the call at once: the
\* call has raised the decode error, it is the last attempt, no sleep followed
\* it, it is counted by neither got_429 nor got_timeouts, and nothing was
\* handed to receive_response.
C10_DecodeErrorNotRetried ==
    \A c \in Calls :
        LET h == outcome[c]
            n == Len(h)
        IN  Count(h, "decode_error") >= 1 =>
                /\ h[n] = "decode_error"
                /\ Count(h, "decode_error") = 1
                /\ pc[c] = "raised"
                /\ raised[c] = Some("DecodeError")
                /\ Sends(c) = n
                /\ sleeps[c] = n - 1
                /\ got_429[c] = Count(h, "rate_limited")
                /\ got_timeouts[c] = Count(h, "error")
                /\ got_429[c] + got_timeouts[c] = n - 1
                /\ received[c] = << >>

C10_Witness ==
    \E c \in Calls :
        /\ outcome[c] = <<"rate_limited", "error", "decode_error">>
        /\ pc[c] = "raised"
        /\ raised[c] = Some("DecodeError")

\* ---- C11 ----------------------------------------------------------------------
\* C11: a call that has returned a variant of a rate-limited attempt (status
\* 429 or an ErrorResponse) has a finite max_limit_exceeded that got_429, the
\* number of its rate-limited attempts, exceeds; every other call that has
\* returned has returned the non-error variant of an attempt whose status was
\* not 429.
C11_ErrorVariantOnlyOnExhaustion ==
    \A c \in Calls :
        Returned(c) =>
            LET h == outcome[c]
                n == Len(h)
            IN  /\ n >= 1
                /\ resp[c] = decoded[c]
                /\ IF h[n] = "rate_limited"
                   THEN /\ max_limit_exceeded # None
                        /\ got_429[c] > max_limit_exceeded[1]
                        /\ Count(h, "rate_limited") > max_limit_exceeded[1]
                   ELSE /\ h[n] = "ok"
                        /\ resp[c][1].cls # "ErrorResponse"

C11_Witness ==
    \E c \in Calls :
        /\ Returned(c)
        /\ max_limit_exceeded = Some(1)
        /\ outcome[c] = <<"rate_limited", "error", "rate_limited">>
        /\ resp[c][1].cls = "ErrorResponse"

\* ---- C12 ----------------------------------------------------------------------
\* C12: with max_limit_exceeded absent a call whose last attempt was rate
\* limited is retrying, whatever the number of such attempts, and a call that
\* has returned has returned a success; with max_timeouts absent a call whose
\* last attempt failed is retrying and no call has raised a connection or
\* timeout error.
C12_AbsentCeilingIsUnlimited ==
    \A c \in Calls :
        LET h == outcome[c]
            n == Len(h)
        IN  /\ max_limit_exceeded = None =>
                /\ (n >= 1 /\ h[n] = "rate_limited") =>
                        Retrying(c) /\ raised[c] = None /\ sleeps[c] = n
                /\ Returned(c) => h[n] = "ok"
            /\ max_timeouts = None =>
                /\ (n >= 1 /\ h[n] = "error") =>
                        Retrying(c) /\ raised[c] = None /\ sleeps[c] = n
                /\ raised[c] = None \/ raised[c][1] \notin ConnErrors

C12_Witness ==
    \E c \in Calls :
        /\ max_limit_exceeded = None
        /\ max_timeouts = None
        /\ Len(outcome[c]) = 3
        /\ Count(outcome[c], "rate_limited") >= 1
        /\ Count(outcome[c], "error") >= 1
        /\ pc[c] = "sleep"

\* ---- C13 ----------------------------------------------------------------------
\* C13: a call sleeping after a rate-limited attempt sleeps retry_after_ms/1000
\* seconds when the variant decoded from that attempt has a retry_after_ms
\* that is present, not None and not 0, and 5 seconds otherwise.
C13_RateLimitWait ==
    \A c \in Calls :
        LET h == outcome[c]
            n == Len(h)
        IN  (pc[c] = "sleep" /\ h[n] = "rate_limited") =>
                LET s == last_sleep[c][1]
                    ra == decoded[c][1].retry_after_ms
                IN  /\ DOMAIN s = {"num", "den"}
                    /\ s.den > 0
                    /\ IF ra.has /\ ra.val # None /\ ra.val # Some(0)
                       THEN s.num * 1000 = ra.val[1] * s.den
                       ELSE s.num = 5 * s.den

C13_Witness ==
    \E c \in Calls :
        /\ pc[c] = "sleep"
        /\ outcome[c] = <<"rate_limited", "rate_limited">>
        /\ resp[c][1].retry_after_ms = Attr(Some(0))
        /\ last_sleep[c] = Some([num |-> 5000, den |-> 1000])

\* ---- C14 ----------------------------------------------------------------------
\* C14: the values forwarded to the client's state-update hook by direct calls
\* of receive_response are exactly the response variants among the arguments,
\* each once and in order; the last call raised ValueError if and only if its
\* argument was not a response variant.
C14_ReceiveResponseContract ==
    LET IsVariant(v) == v \in ResponseValues
        n == Len(rr_args)
    IN  /\ rr_forwarded = SelectSeq(rr_args, IsVariant)
        /\ n >= 1 =>
              /\ rr_args[n] \in NonResponseValues <=> rr_raised = Some("ValueError")
              /\ rr_args[n] \in ResponseValues <=> rr_raised = None

C14_Witness ==
    /\ Len(rr_args) = 2
    /\ rr_args[1] \in ResponseValues
    /\ rr_args[2] \in NonResponseValues
    /\ rr_args[2].cls = "dict"
    /\ rr_forwarded = <<rr_args[1]>>
    /\ rr_raised = Some("ValueError")

\* ---- C15 ----------------------------------------------------------------------
\* C15: in a call got_429 is the number of its rate-limited attempts and
\* got_timeouts the number of its failed attempts, whatever their order; no
\* step lowers either and no step raises both; the call has returned a
\* rate-limited variant exactly when the rate-limited attempts exceed a finite
\* max_limit_exceeded, and has raised a connection or timeout error exactly
\* when the failed attempts exceed a finite max_timeouts.
C15_IndependentCounters ==
    /\ [](\A c \in Calls :
            LET h == outcome[c]
                n == Len(h)
            IN  /\ got_429[c] = Count(h, "rate_limited")
                /\ got_timeouts[c] = Count(h, "error")
                /\ (Returned(c) /\ h[n] = "rate_limited")
                      <=> (/\ max_limit_exceeded # None
                           /\ Count(h, "rate_limited") > max_limit_exceeded[1])
                /\ (pc[c] = "raised" /\ raised[c][1] \in ConnErrors)
                      <=> (/\ max_timeouts # None
                           /\ Count(h, "error") > max_timeouts[1]))
    /\ [][\A c \in Calls :
            pc[c] # "idle" =>
                /\ got_429'[c] >= got_429[c]
                /\ got_timeouts'[c] >= got_timeouts[c]
                /\ got_429'[c] + got_timeouts'[c]
                      <= got_429[c] + got_timeouts[c] + 1]_vars

C15_Witness ==
    \E c \in Calls :
        /\ max_limit_exceeded = Some(1)
        /\ max_timeouts = Some(1)
        /\ outcome[c] = <<"error", "rate_limited", "error">>
        /\ got_429[c] = 1
        /\ got_timeouts[c] = 2
        /\ pc[c] = "raised"

\* ---- C16 ----------------------------------------------------------------------
\* C16: api_send starts with both counters at 0, and a step in which an
\* attempt of one call is answered, fails or is sent changes nothing of any
\* other call: not its counters, its sleeps, its attempts, its position or
\* its result.
C16_CallLocalRetryState ==
    [][\A c \in Calls :
          /\ (pc[c] = "idle" /\ pc'[c] # "idle") =>
                got_429'[c] = 0 /\ got_timeouts'[c] = 0
          /\ \A d \in Calls \ {c} :
                (outcome'[d] # outcome[d] \/ pc'[d] # pc[d]) =>
                    /\ got_429'[c] = got_429[c]
                    /\ got_timeouts'[c] = got_timeouts[c]
                    /\ sleeps'[c] = sleeps[c]
                    /\ outcome'[c] = outcome[c]
                    /\ pc'[c] = pc[c]
                    /\ resp'[c] = resp[c]
                    /\ raised'[c] = raised[c]
                    /\ received'[c] = received[c]]_vars

C16_Witness ==
    \E c \in Calls, d \in Calls :
        /\ max_timeouts = Some(1)
        /\ outcome[c] = <<"error", "error">>
        /\ pc[c] = "raised"
        /\ outcome[d] = <<"error">>
        /\ got_timeouts[d] = 1
        /\ pc[d] = "sleep"

\* ---- C17 ----------------------------------------------------------------------
\* C17: the timeout-retry wait policy has been asked once for every failed
\* attempt of the call that was absorbed, with 1, 2, 3, ... in that order (the
\* running count of failed attempts, rate-limited attempts in between not
\* counted and not resetting it), and not for a failure that was re-raised;
\* a call sleeping after its k-th failed attempt sleeps what the policy gave
\* for k.
C17_TimeoutWaitPolicy ==
    \A c \in Calls :
        LET h == outcome[c]
            n == Len(h)
            k == Count(h, "error")
            reraised == pc[c] = "raised" /\ raised[c][1] \in ConnErrors
            absorbed == IF reraised THEN k - 1 ELSE k
        IN  /\ wait_args[c] = [i \in 1..absorbed |-> i]
            /\ (pc[c] = "sleep" /\ h[n] = "error") =>
                  last_sleep[c] = Some(GetTimeoutRetryWaitTime(k))

C17_Witness ==
    \E c \in Calls :
        /\ outcome[c] = <<"error", "rate_limited", "error">>
        /\ wait_args[c] = <<1, 2>>
        /\ pc[c] = "sleep"
        /\ last_sleep[c] = Some(GetTimeoutRetryWaitTime(2))

\* ---- C18 ----------------------------------------------------------------------
\* C18: a call whose task was cancelled while it awaited a response or slept
\* has ended with CancelledError: the cancellation is not counted as a timeout
\* and starts no wait, nothing was handed to receive_response, and from then
\* on the call sends nothing; the cancelling step leaves client_session as it
\* is, and every request of the other calls still goes to that session.
C18_CancellationUnwinds ==
    /\ [](\A c \in Calls :
            /\ c \in cancelled =>
                  /\ pc[c] = "cancelled"
                  /\ raised[c] = Some("CancelledError")
                  /\ received[c] = << >>
                  /\ got_timeouts[c] = Count(outcome[c], "error")
                  /\ Len(wait_args[c]) = got_timeouts[c]
                  /\ sleeps[c] = got_429[c] + got_timeouts[c]
            /\ request[c] # None => request[c][1].session = client_session)
    /\ [][\A c \in Calls :
            /\ (c \notin cancelled /\ c \in cancelled') =>
                  /\ client_session' = client_session
                  /\ sessions_created' = sessions_created
                  /\ request' = request
            /\ c \in cancelled =>
                  /\ pc'[c] = "cancelled"
                  /\ request'[c] = request[c]
                  /\ outcome'[c] = outcome[c]
                  /\ received'[c] = << >>]_vars

C18_Witness ==
    \E c \in Calls, d \in Calls :
        /\ c \in cancelled
        /\ outcome[c] = <<"rate_limited">>
        /\ pc[c] = "cancelled"
        /\ d \notin cancelled
        /\ Returned(d)
        /\ Len(outcome[d]) = 2
        /\ request[d][1].session = request[c][1].session
        /\ client_session = request[d][1].session

\* ---- C19 ----------------------------------------------------------------------
\* C19: with finite ceilings R = max_limit_exceeded and T = max_timeouts a call
\* never issues more than R + T + 1 requests, and, every request and every
\* sleep completing, a call once made ends by returning or raising.
C19_Terminates ==
    /\ [](\A c \in Calls :
            Sends(c) <= max_limit_exceeded[1] + max_timeouts[1] + 1)
    /\ \A c \in Calls :
          (pc[c] \in {"send", "sleep"}) ~> (pc[c] \in {"returned", "raised"})

C19_Witness ==
    \E c \in Calls :
        /\ max_limit_exceeded = Some(1)
        /\ max_timeouts = Some(1)
        /\ outcome[c] = <<"rate_limited", "error", "rate_limited">>
        /\ Sends(c) = 3
        /\ Returned(c)

====
